---- MODULE Spec2Model ----
(***************************************************************************)
(* Model of the two scripted modules of the repository:                    *)
(*   EasySegmentation  (MangoExtensionV562/EasySegmentation)               *)
(*   ImplantVideo      (ImplantVideoExtension/ImplantVideo)                *)
(* One behaviour follows one module widget (variable module) from the      *)
(* state left by __init__ and setup.  A handler runs to completion on the  *)
(* GUI thread, so each handler is one action; the signals it raises        *)
(* (currentIndexChanged, clicked) are delivered inside it.  Handlers are   *)
(* written as operators from the widget state (a record of the fields) to  *)
(* the widget state, composed in the order of the statements of the code.  *)
(* File names are sequences of one-character strings.                      *)
(***************************************************************************)
EXTENDS Integers, Sequences, FiniteSets, TLC

(***************************************************************************)
(* Bounds of the model.                                                    *)
(***************************************************************************)
\* current_file stays within -MaxIndex..MaxIndex: Next and Previous are no
\* longer pressed beyond
MaxIndex == 2
\* number of items the file list may hold before Load is no longer pressed
MaxComboItems == 2
\* number of screenshots capture3dViewRotation writes (360 in the code)
NumFrames == 2
\* largest number of files of one folder in the wide folder enumeration
MaxFolderFiles == 2
\* the segment editor nodes made in one behaviour
MaxEditorNodes == 3
\* number of VolumeProperty elements of Resources/presets.xml
NumPresets == 2
\* depth of nested slot calls at which Python raises RecursionError
MaxRecursion == 4

(***************************************************************************)
(* Strings.                                                                *)
(***************************************************************************)
Min(S) == CHOOSE x \in S : \A y \in S : x <= y

\* the characters used in file names, in increasing code point order
AsciiOrder == <<"-", ".", "0", "1", "2", "3", "4", "5", "6", "7", "8", "9", "_",
                "a", "b", "c", "d", "e", "f", "g", "h", "i", "j", "k", "l", "m",
                "n", "o", "p", "q", "r", "s", "t", "u", "v", "w", "x", "y", "z">>

Ord(c) == CHOOSE i \in 1..Len(AsciiOrder) : AsciiOrder[i] = c

\* Python's str < str
RECURSIVE StrLess(_, _)
StrLess(a, b) ==
  IF b = <<>> THEN FALSE
  ELSE IF a = <<>> THEN TRUE
  ELSE IF a[1] = b[1] THEN StrLess(Tail(a), Tail(b))
  ELSE Ord(a[1]) < Ord(b[1])

\* Python's str.find: 0-based index of the first occurrence, -1 when absent
Find(s, sub) ==
  LET hits == {i \in 0..(Len(s) - Len(sub)) : SubSeq(s, i + 1, i + Len(sub)) = sub}
  IN IF hits = {} THEN -1 ELSE Min(hits)

\* Python's s[:n] for n >= 0
Prefix(s, n) == SubSeq(s, 1, n)

\* Python's s[:n]; a negative n counts from the end
PyPrefix(s, n) == IF n >= 0 THEN SubSeq(s, 1, n) ELSE SubSeq(s, 1, Len(s) + n)

\* Python's "sub in s"
In(sub, s) == Find(s, sub) # -1

EndsWith(s, suf) ==
  /\ Len(s) >= Len(suf)
  /\ SubSeq(s, Len(s) - Len(suf) + 1, Len(s)) = suf

\* sorted(...) of a set of strings
RECURSIVE Sorted(_)
Sorted(S) ==
  IF S = {} THEN <<>>
  ELSE LET m == CHOOSE x \in S : \A y \in S \ {x} : StrLess(x, y)
       IN <<m>> \o Sorted(S \ {m})

ext_nrrd == <<".", "n", "r", "r", "d">>
ext_nii == <<".", "n", "i", "i">>
ext_nii_gz == <<".", "n", "i", "i", ".", "g", "z">>
ext_mp4 == <<".", "m", "p", "4">>
ext_png == <<".", "p", "n", "g">>

\* self.file_types with the leading '*' removed (types[1:])
file_types == <<ext_nrrd, ext_nii, ext_nii_gz>>

\* GlobMatch with the pattern taken as a substring of the name
GlobMatch_substring(name, ext) == In(ext, name) /\ name[1] # "."

\* glob of the pattern '*' + ext on one file name: '*' matches any run of
\* characters but never a leading '.'
GlobMatch(name, ext) ==
  /\ Len(name) >= Len(ext)
  /\ EndsWith(name, ext)
  /\ name[1] # "."

\* re.sub(r"[_-]+", '_', s)
RECURSIVE ReSubDash(_)
ReSubDash(s) ==
  IF s = <<>> THEN <<>>
  ELSE IF s[1] \in {"_", "-"}
       THEN LET rest == ReSubDash(Tail(s))
            IN IF rest # <<>> /\ rest[1] = "_" /\ Len(s) > 1 /\ s[2] \in {"_", "-"}
               THEN rest
               ELSE <<"_">> \o rest
       ELSE <<s[1]>> \o ReSubDash(Tail(s))

\* find_basename_wo_extension on a base name
RECURSIVE find_wo_ext(_, _)
find_wo_ext(file_basename, k) ==
  IF k > Len(file_types) THEN file_basename
  ELSE IF Find(file_basename, file_types[k]) # -1
       THEN Prefix(file_basename, Find(file_basename, file_types[k]))
       ELSE find_wo_ext(file_basename, k + 1)

find_basename_wo_extension(file_basename) == find_wo_ext(file_basename, 1)

(***************************************************************************)
(* Paths and folders.  A path is a list of directory components and a base *)
(* name; os.path.join('', name) is the bare name, which glob and the       *)
(* loaders resolve against the working directory of the application.       *)
(***************************************************************************)
NoFile == [dir |-> <<>>, name |-> <<>>]

\* os.path.join(directory, name) for a directory chosen in a folder dialog
Join(directory, name) ==
  [dir |-> IF directory = "" THEN <<>> ELSE <<directory>>, name |-> name]

\* os.path.join(path, component)
SubDir(directory, component) ==
  IF directory = "" THEN <<component>> ELSE <<directory, component>>

\* os.path.basename
basename(path) == path.name

\* what the dialog of the image folder returns ("" when it is cancelled)
InputDirs == {"", "A", "B"}
\* what the dialog of the segmentation folder returns
SegDirs == {"", "B"}
\* what a folder dialog returns for the destination folder
OutputDirs == {"", "out"}

Name(stem, ext) == stem \o ext

n_a_niigz == Name(<<"a">>, ext_nii_gz)
n_bc_niigz == Name(<<"b", "_", "c">>, ext_nii_gz)
n_readme == <<"r", "e", "a", "d", "m", "e", ".", "t", "x", "t">>
n_bcseg_nrrd == Name(<<"b", "-", "c", "_", "s", "e", "g">>, ext_nrrd)
n_x_niigz == Name(<<"x">>, ext_nii_gz)

n_a_nii == Name(<<"a">>, ext_nii)
n_adb_niigz == Name(<<"a", "-", "b">>, ext_nii_gz)
n_abseg_nrrd == Name(<<"a", "_", "_", "b", "_", "s", "e", "g">>, ext_nrrd)
n_b_nrrd == Name(<<"b">>, ext_nrrd)
n_ab_niigz == Name(<<"a", "b">>, ext_nii_gz)
n_hidden_nii == Name(<<".", "a">>, ext_nii)
n_c_nrrd_nii == Name(<<"c">>, ext_nrrd \o ext_nii)
n_old_png == <<"i", "m", "a", "g", "e", "_", "x">> \o ext_png

\* the file names the wide folder enumeration draws from
NamePool == {n_a_nii, n_adb_niigz, n_abseg_nrrd, n_b_nrrd, n_ab_niigz,
             n_readme, n_hidden_nii, n_c_nrrd_nii}

\* the folder contents of the navigation model: two cases in A, one
\* segmentation in B, and a working directory that holds no case or one
NavFolders ==
  {[d \in InputDirs |->
      CASE d = "A" -> {n_a_niigz, n_bc_niigz, n_readme}
        [] d = "B" -> {n_bcseg_nrrd}
        [] OTHER -> cwd] : cwd \in {{}, {n_x_niigz}}}

\* every content of A and B of at most MaxFolderFiles files of NamePool
WideFolders ==
  LET Small == {S \in SUBSET NamePool : Cardinality(S) <= MaxFolderFiles}
  IN {[d \in InputDirs |->
        CASE d = "A" -> fa [] d = "B" -> fb [] OTHER -> {}] :
      fa \in Small, fb \in Small}

\* the names the image folder of ImplantVideo may hold
n_twice_niigz == Name(<<"a">>, ext_nii_gz \o ext_nii_gz)
n_hidden_niigz == Name(<<".", "a">>, ext_nii_gz)

VideoNamePool == {n_a_niigz, n_adb_niigz, n_ab_niigz, n_twice_niigz,
                  n_hidden_niigz, n_a_nii}

\* every content of A and B of at most MaxFolderFiles files of VideoNamePool
VideoFolders ==
  LET Small == {S \in SUBSET VideoNamePool : Cardinality(S) <= MaxFolderFiles}
  IN {[d \in InputDirs |->
        CASE d = "A" -> fa [] d = "B" -> fb [] OTHER -> {}] :
      fa \in Small, fb \in Small}

\* sorted(glob.glob(os.path.join(directory, '*' + ext))), as base names
Glob(fs, directory, ext) ==
  Sorted({n \in fs[directory] : GlobMatch(n, ext)})

(***************************************************************************)
(* File contents, numbers and texts.                                       *)
(***************************************************************************)
\* the voxels slicer.util.loadVolume reads from an image file
VolumeData(path) ==
  CASE path.name = n_a_niigz -> <<0, 1999, 2000>>
    [] path.name = n_bc_niigz -> <<2500, 0, 2000>>
    [] path.name = n_x_niigz -> <<1999, 1999, 0>>
    [] OTHER -> <<0, 2500, 1999>>

\* the segments slicer.util.loadSegmentation reads from a segmentation file,
\* as the list of (segment name, binary labelmap)
SegmentationData(path) ==
  IF path.name = n_bcseg_nrrd THEN << <<"Segment_1", <<0, 0, 1>> >> >>
  ELSE << <<"mask", <<1, 1, 0>> >> >>

Max(S) == CHOOSE x \in S : \A y \in S : x >= y

\* numpy's volumeArray.max()
ArrayMax(voxels) == Max({voxels[i] : i \in 1..Len(voxels)})

Digits == <<"0", "1", "2", "3", "4", "5", "6", "7", "8", "9">>

DigitValue(c) == (CHOOSE i \in 1..10 : Digits[i] = c) - 1

IsDigit(c) == \E i \in 1..10 : Digits[i] = c

\* "{}".format(n) for an integer n >= 0
RECURSIVE IntToText(_)
IntToText(n) ==
  IF n < 10 THEN <<Digits[n + 1]>>
  ELSE IntToText(n \div 10) \o <<Digits[(n % 10) + 1]>>

RECURSIVE DigitsValue(_)
DigitsValue(t) ==
  IF t = <<>> THEN 0 ELSE 10 * DigitsValue(SubSeq(t, 1, Len(t) - 1)) + DigitValue(t[Len(t)])

AllDigits(t) == \A i \in 1..Len(t) : IsDigit(t[i])

\* the texts float() accepts here: digits with at most one decimal point and
\* at most one digit after it; float() raises ValueError on the others
IsNumeric(t) ==
  LET dot == Find(t, <<".">>)
  IN IF dot = -1 THEN t # <<>> /\ AllDigits(t)
     ELSE /\ AllDigits(Prefix(t, dot))
          /\ AllDigits(SubSeq(t, dot + 2, Len(t)))
          /\ Len(t) - dot - 1 <= 1
          /\ Len(t) > 1

\* float(t), in tenths
Float(t) ==
  LET dot == Find(t, <<".">>)
  IN IF dot = -1 THEN 10 * DigitsValue(t)
     ELSE 10 * DigitsValue(Prefix(t, dot)) + DigitsValue(SubSeq(t, dot + 2, Len(t)))

t_0_1 == <<"0", ".", "1">>
t_100000 == <<"1", "0", "0", "0", "0", "0">>
t_2000 == <<"2", "0", "0", "0">>
t_1999_5 == <<"1", "9", "9", "9", ".", "5">>
t_abc == <<"a", "b", "c">>
t_seg == <<"_", "s", "e", "g">>
t_v2 == <<"_", "v", "2">>

\* what the user may type in the min box, the max box and the suffix box
MinTexts == {t_0_1, t_2000, t_abc}
MaxTexts == {t_100000, t_1999_5}
SuffixTexts == {t_seg, t_v2}

\* the threshold with the upper bound left out of the range
ThresholdArray_exclusive(volumeArray, minValue, maxValue) ==
  [i \in 1..Len(volumeArray) |->
     IF 10 * volumeArray[i] >= Float(minValue) /\ 10 * volumeArray[i] < Float(maxValue)
     THEN 1 ELSE 0]

\* segmentArray[:] = 0; segmentArray[(volumeArray >= lo) & (volumeArray <= hi)] = 1
ThresholdArray(volumeArray, minValue, maxValue) ==
  [i \in 1..Len(volumeArray) |->
     IF 10 * volumeArray[i] >= Float(minValue) /\ 10 * volumeArray[i] <= Float(maxValue)
     THEN 1 ELSE 0]

\* Python list indexing: list[i] raises IndexError outside -len..len-1
PyValid(list, i) == -Len(list) <= i /\ i < Len(list)

PyAt(list, i) == IF i >= 0 THEN list[i + 1] ELSE list[Len(list) + i + 1]

(***************************************************************************)
(* The widget state.  Nodes are records; None stands for an attribute that *)
(* is not set (EasySegmentation sets currentVolumeNode and currentSegNode  *)
(* in LoadFiles only) and for the "" ImplantVideo starts with.  fileset is *)
(* first assigned by onRun or onReset; it is read only at an index, so the *)
(* unset attribute and the empty list both make the read raise and are     *)
(* both the empty sequence here.  log, lastOp and loads are not fields of   *)
(* the widget: they record what the last handler did, which handler it     *)
(* was, and how often Load was pressed.                                    *)
(***************************************************************************)
VARIABLES module, folders, saveDirectory, imageDirectory, segDirectory,
          fileset, current_file, total_files, FileComboBox,
          ImageCheck, SegCheck, suffixBox, suffixButton,
          ThresholdCheck, minBox, maxBox, ApplyButton,
          needAddProperty, changeProperty,
          currentVolumeNode, currentSegNode, editorSegmentationNode,
          scene, disk, log, lastOp, pc, images_list, video_file, loads,
          RenderCheck, RenderButton, render, editorCollapsibleButton,
          renderCollapsibleButton, displayNode,
          parameterSetNode, editorSegmentEditorNode, segmentEditorNodes,
          isEntered,
          PresetComboBox, PresetOffsetSlider, OldPresetPosition,
          currentPresetNode, newPresetNode

vars == <<module, folders, saveDirectory, imageDirectory, segDirectory,
          fileset, current_file, total_files, FileComboBox,
          ImageCheck, SegCheck, suffixBox, suffixButton,
          ThresholdCheck, minBox, maxBox, ApplyButton,
          needAddProperty, changeProperty,
          currentVolumeNode, currentSegNode, editorSegmentationNode,
          scene, disk, log, lastOp, pc, images_list, video_file, loads,
          RenderCheck, RenderButton, render, editorCollapsibleButton,
          renderCollapsibleButton, displayNode,
          parameterSetNode, editorSegmentEditorNode, segmentEditorNodes,
          isEntered,
          PresetComboBox, PresetOffsetSlider, OldPresetPosition,
          currentPresetNode, newPresetNode>>

None == [class |-> "None", name |-> <<>>, file |-> NoFile, voxels |-> <<>>, segments |-> <<>>]

VolumeNode(name, file, voxels) ==
  [class |-> "vtkMRMLScalarVolumeNode", name |-> name, file |-> file,
   voxels |-> voxels, segments |-> <<>>]

SegmentationNode(name, file, segments) ==
  [class |-> "vtkMRMLSegmentationNode", name |-> name, file |-> file,
   voxels |-> <<>>, segments |-> segments]

LabelMapVolumeNode ==
  [class |-> "vtkMRMLLabelMapVolumeNode", name |-> <<>>, file |-> NoFile,
   voxels |-> <<>>, segments |-> <<>>]

\* self.displayNode = None
NoDisplay == [class |-> "None", volume |-> NoFile, visibility |-> FALSE]

\* the node CreateDefaultVolumeRenderingNodes makes for the volume read
\* from file
VolumeRenderingDisplayNode(file, visibility) ==
  [class |-> "vtkMRMLVolumeRenderingDisplayNode", volume |-> file,
   visibility |-> visibility]

\* the fields of the widget as one record
Self ==
  [module |-> module, folders |-> folders, saveDirectory |-> saveDirectory,
   imageDirectory |-> imageDirectory, segDirectory |-> segDirectory,
   fileset |-> fileset, current_file |-> current_file, total_files |-> total_files,
   FileComboBox |-> FileComboBox, ImageCheck |-> ImageCheck, SegCheck |-> SegCheck,
   suffixBox |-> suffixBox, suffixButton |-> suffixButton,
   ThresholdCheck |-> ThresholdCheck, minBox |-> minBox, maxBox |-> maxBox,
   ApplyButton |-> ApplyButton, needAddProperty |-> needAddProperty,
   changeProperty |-> changeProperty, currentVolumeNode |-> currentVolumeNode,
   currentSegNode |-> currentSegNode,
   editorSegmentationNode |-> editorSegmentationNode, scene |-> scene,
   disk |-> disk, log |-> log, lastOp |-> lastOp, pc |-> pc,
   images_list |-> images_list, video_file |-> video_file, loads |-> loads,
   RenderCheck |-> RenderCheck, RenderButton |-> RenderButton, render |-> render,
   editorCollapsibleButton |-> editorCollapsibleButton,
   renderCollapsibleButton |-> renderCollapsibleButton, displayNode |-> displayNode,
   parameterSetNode |-> parameterSetNode,
   editorSegmentEditorNode |-> editorSegmentEditorNode,
   segmentEditorNodes |-> segmentEditorNodes, isEntered |-> isEntered,
   PresetComboBox |-> PresetComboBox, PresetOffsetSlider |-> PresetOffsetSlider,
   OldPresetPosition |-> OldPresetPosition,
   currentPresetNode |-> currentPresetNode, newPresetNode |-> newPresetNode]

\* the next state is the record s
Commit(s) ==
  /\ module' = s.module /\ folders' = s.folders
  /\ saveDirectory' = s.saveDirectory /\ imageDirectory' = s.imageDirectory
  /\ segDirectory' = s.segDirectory /\ fileset' = s.fileset
  /\ current_file' = s.current_file /\ total_files' = s.total_files
  /\ FileComboBox' = s.FileComboBox /\ ImageCheck' = s.ImageCheck
  /\ SegCheck' = s.SegCheck /\ suffixBox' = s.suffixBox
  /\ suffixButton' = s.suffixButton /\ ThresholdCheck' = s.ThresholdCheck
  /\ minBox' = s.minBox /\ maxBox' = s.maxBox /\ ApplyButton' = s.ApplyButton
  /\ needAddProperty' = s.needAddProperty /\ changeProperty' = s.changeProperty
  /\ currentVolumeNode' = s.currentVolumeNode /\ currentSegNode' = s.currentSegNode
  /\ editorSegmentationNode' = s.editorSegmentationNode /\ scene' = s.scene
  /\ disk' = s.disk /\ log' = s.log /\ lastOp' = s.lastOp /\ pc' = s.pc
  /\ images_list' = s.images_list /\ video_file' = s.video_file
  /\ loads' = s.loads
  /\ RenderCheck' = s.RenderCheck /\ RenderButton' = s.RenderButton
  /\ render' = s.render /\ editorCollapsibleButton' = s.editorCollapsibleButton
  /\ renderCollapsibleButton' = s.renderCollapsibleButton
  /\ displayNode' = s.displayNode
  /\ parameterSetNode' = s.parameterSetNode
  /\ editorSegmentEditorNode' = s.editorSegmentEditorNode
  /\ segmentEditorNodes' = s.segmentEditorNodes /\ isEntered' = s.isEntered
  /\ PresetComboBox' = s.PresetComboBox
  /\ PresetOffsetSlider' = s.PresetOffsetSlider
  /\ OldPresetPosition' = s.OldPresetPosition
  /\ currentPresetNode' = s.currentPresetNode
  /\ newPresetNode' = s.newPresetNode

\* a handler named op starts: the record of what the handler does is empty
\* (the folder dialogs, check boxes and text boxes all start as "input")
Begin(op) == [Self EXCEPT !.log = <<>>, !.lastOp = op]

\* what a handler does that is seen outside the widget
Event(ev, path, msg, node) == [ev |-> ev, path |-> path, msg |-> msg, node |-> node]

Log(s, ev, path, msg, node) == [s EXCEPT !.log = Append(@, Event(ev, path, msg, node))]

\* slicer.util.warningDisplay(msg, windowTitle='Mangomedcial')
warningDisplay(s, msg) == Log(s, "warning", NoFile, msg, None)

\* an exception leaves the handler; PythonQt prints it and the caller of the
\* slot goes on
Raise(s, exception) == Log(s, "raise", NoFile, exception, None)

(***************************************************************************)
(* The segment editor node of EasySegmentation.  Segment editor nodes are  *)
(* numbered in the order they are made; NoNode is Python's None.  The      *)
(* scene holds at most one node with the singleton tag 'SegmentEditor'.    *)
(***************************************************************************)
NoNode == 0

\* the node CreateNodeByClass makes is one no reference was made to before
NewSegmentEditorNode(s) ==
  Max({s.parameterSetNode, s.editorSegmentEditorNode} \cup s.segmentEditorNodes) + 1

\* selectParameterNode that leaves the editor widget as it is
selectParameterNode_unbound(s) ==
  LET segmentEditorNode ==
        IF s.segmentEditorNodes # {} THEN CHOOSE n \in s.segmentEditorNodes : TRUE
        ELSE NewSegmentEditorNode(s)
      s1 == [s EXCEPT !.segmentEditorNodes = @ \cup {segmentEditorNode}]
  IN IF s1.parameterSetNode = segmentEditorNode THEN s1
     ELSE [s1 EXCEPT !.parameterSetNode = segmentEditorNode]

\* lines 318-331
selectParameterNode(s) ==
  LET segmentEditorNode ==
        IF s.segmentEditorNodes # {} THEN CHOOSE n \in s.segmentEditorNodes : TRUE
        ELSE NewSegmentEditorNode(s)
      s1 == [s EXCEPT !.segmentEditorNodes = @ \cup {segmentEditorNode}]
  IN IF s1.parameterSetNode = segmentEditorNode THEN s1
     ELSE [s1 EXCEPT !.parameterSetNode = segmentEditorNode,
                     !.editorSegmentEditorNode = segmentEditorNode]

\* lines 847-852; the application sets isEntered before it calls enter
enter(s) == selectParameterNode([s EXCEPT !.isEntered = TRUE])

\* lines 854-860 change nothing that is kept here
exit(s) == [s EXCEPT !.isEntered = FALSE]

\* lines 862-866
onSceneStartClose(s) == selectParameterNode(s)

\* lines 868-873
onSceneEndClose(s) == IF s.isEntered THEN selectParameterNode(s) ELSE s

(***************************************************************************)
(* EasySegmentation: the volume rendering presets.  The preset list        *)
(* (PresetComboBox, inside the widget render) shows the volume property    *)
(* nodes of the scene; it emits currentNodeIDChanged, connected to         *)
(* onPresetCombo, inside the call that changes its current node, with the  *)
(* empty id when no node is current.  Nodes are numbers: the presets       *)
(* 1..NumPresets, in the order of presets.xml, and the volume property     *)
(* node of the display node.                                               *)
(***************************************************************************)
\* no node: None in Python, the empty id in the signal
NoPreset == 0

\* preset_nodes (line 797-800)
preset_nodes == [i \in 1..NumPresets |-> i]

\* self.volumePropertyNode (line 793)
volumePropertyNode == NumPresets + 1

\* the positions the user may give the offset slider
SliderPositions == {-1, 0, 1}

\* lines 423-432; the points moved are those of the host's property widget
offsetPreset(s, newPosition) ==
  IF s.displayNode = NoDisplay THEN s
  ELSE [Log(s, "moveAllPoints", NoFile, "", None)
          EXCEPT !.OldPresetPosition = newPosition]

\* ctkDoubleSlider.setValue: valueChanged is emitted when the value changes,
\* to offsetPreset and to interaction (lines 266-268)
PresetOffsetSlider_setValue(s, value) ==
  IF s.PresetOffsetSlider.value = value THEN s
  ELSE offsetPreset([s EXCEPT !.PresetOffsetSlider.value = value], value)

RECURSIVE onPresetCombo(_, _, _)
RECURSIVE render_setCurrentNode(_, _, _)

\* render.setCurrentNode(node): the list makes node its current node, or no
\* node when node is not in the list, and emits when its current node changed
render_setCurrentNode(s, node, depth) ==
  LET new == IF node \in s.PresetComboBox.nodes THEN node ELSE NoPreset
  IN IF new = s.PresetComboBox.current THEN s
     ELSE onPresetCombo([s EXCEPT !.PresetComboBox.current = new], new, depth + 1)

\* lines 386-413, as the call number depth of a chain of nested calls
onPresetCombo(s, id, depth) ==
  IF depth > MaxRecursion THEN Raise(s, "RecursionError")
  ELSE IF s.needAddProperty THEN s
  ELSE IF s.changeProperty
  THEN LET s1 == PresetOffsetSlider_setValue([s EXCEPT !.OldPresetPosition = 0], 0)
           s2 == [s1 EXCEPT !.changeProperty = FALSE,
                            !.currentPresetNode = s1.newPresetNode]
       IN render_setCurrentNode(s2, s2.newPresetNode, depth)
  ELSE LET s1 == [s EXCEPT !.newPresetNode = id]
       IN IF s1.currentPresetNode = s1.newPresetNode THEN s1
          ELSE render_setCurrentNode([s1 EXCEPT !.changeProperty = TRUE],
                                     s1.currentPresetNode, depth)

\* volume property nodes enter the scene: the list shows them, and a list
\* that was empty makes its first node the current one
AddVolumePropertyNodes(s, nodes) ==
  LET s1 == [s EXCEPT !.PresetComboBox.nodes = @ \cup nodes]
  IN IF s.PresetComboBox.nodes = {} /\ nodes # {}
     THEN onPresetCombo([s1 EXCEPT !.PresetComboBox.current = Min(nodes)],
                        Min(nodes), 1)
     ELSE s1

\* the volume property nodes have left the scene: the list is empty and, when
\* it had a current node, emits currentNodeIDChanged with the empty id
PresetComboBox_cleared(s) ==
  LET s1 == [s EXCEPT !.PresetComboBox = [nodes |-> {}, current |-> NoPreset]]
  IN IF s.PresetComboBox.current = NoPreset THEN s1
     ELSE onPresetCombo(s1, NoPreset, 1)

\* slicer.mrmlScene.Clear(removeSingletons): every node leaves the scene,
\* the singleton nodes too when removeSingletons is set, and the segment
\* editor forgets its segmentation node; the editor widget keeps or drops
\* (editorKeeps) its segment editor node when that node is removed
Clear(s, removeSingletons, editorKeeps) ==
  PresetComboBox_cleared(
    Log([s EXCEPT !.scene = {}, !.editorSegmentationNode = None,
                  !.segmentEditorNodes = IF removeSingletons THEN {} ELSE @,
                  !.editorSegmentEditorNode =
                     IF removeSingletons /\ ~editorKeeps THEN NoNode ELSE @],
        "Clear", NoFile, "", None))

\* slicer.mrmlScene.Clear(0); the scene invokes StartCloseEvent before and
\* EndCloseEvent after, which EasySegmentation observes
RemoveCurrentScene(s) ==
  IF s.module = "EasySegmentation"
  THEN onSceneEndClose(Clear(onSceneStartClose(s), FALSE, TRUE))
  ELSE Clear(s, FALSE, TRUE)

\* the events of kind ev in the record of the last handler
Events(ev) == {i \in 1..Len(log) : log[i].ev = ev}

Warned(msg) == \E i \in Events("warning") : log[i].msg = msg

(***************************************************************************)
(* EasySegmentation: threshold widgets and LoadFiles.                      *)
(***************************************************************************)
ES_onThresholdCheck(s) ==
  IF s.ThresholdCheck.checked
  THEN [s EXCEPT !.minBox.enabled = TRUE, !.maxBox.enabled = TRUE,
                 !.ApplyButton.enabled = TRUE]
  ELSE [s EXCEPT !.minBox.enabled = FALSE, !.maxBox.enabled = FALSE,
                 !.ApplyButton.enabled = FALSE]

\* GetSegmentIdBySegmentName: the position of the segment, 0 for ""
SegmentIdByName(segments, name) ==
  LET ids == {i \in 1..Len(segments) : segments[i][1] = name}
  IN IF ids = {} THEN 0 ELSE Min(ids)

\* the segmentation node that self.currentSegNode refers to is changed in
\* place: in the scene when it is there, and for the editor that holds it
SetCurrentSegNode(s, node) ==
  [s EXCEPT !.scene = IF s.currentSegNode \in @
                      THEN (@ \ {s.currentSegNode}) \cup {node} ELSE @,
            !.editorSegmentationNode = IF @ = s.currentSegNode THEN node ELSE @,
            !.currentSegNode = node]

\* lines 355-369 and 751-768: find or add 'Segment_1', then fill it by
\* thresholding the volume between the texts of the two boxes
ThresholdSegment(s) ==
  LET segments == s.currentSegNode.segments
      found == SegmentIdByName(segments, "Segment_1")
      zeros == [i \in 1..Len(s.currentVolumeNode.voxels) |-> 0]
      withSegment == IF found = 0 THEN Append(segments, <<"Segment_1", zeros>>)
                     ELSE segments
      NewSegmentId == IF found = 0 THEN Len(withSegment) ELSE found
      s1 == SetCurrentSegNode(s, [s.currentSegNode EXCEPT !.segments = withSegment])
      minValue == s.minBox.text
      maxValue == s.maxBox.text
  IN IF ~IsNumeric(minValue) \/ ~IsNumeric(maxValue)
     THEN Raise(s1, "ValueError")
     ELSE SetCurrentSegNode(s1,
            [s1.currentSegNode EXCEPT !.segments[NewSegmentId] =
               <<"Segment_1",
                 ThresholdArray(s.currentVolumeNode.voxels, minValue, maxValue)>>])

Raised(s) == s.log # <<>> /\ s.log[Len(s.log)].ev = "raise"

\* onRendering that only ever shows the volume rendering
ES_onRendering_shows(s) ==
  IF s.displayNode # NoDisplay /\ s.RenderButton.checked
  THEN [s EXCEPT !.displayNode.visibility = TRUE]
  ELSE s

\* lines 375-384
ES_onRendering(s) ==
  IF s.displayNode # NoDisplay
  THEN [s EXCEPT !.displayNode.visibility = s.RenderButton.checked]
  ELSE s

\* QAbstractButton.click on the checkable RenderButton: nothing when the
\* button is disabled, else the button toggles and clicked(bool) is emitted
RenderButton_click(s) ==
  IF s.RenderButton.enabled
  THEN ES_onRendering([s EXCEPT !.RenderButton.checked = ~@])
  ELSE s

ES_LoadFiles(s0) ==
  LET sa == [s0 EXCEPT !.needAddProperty = TRUE, !.changeProperty = FALSE]
      sb == IF sa.RenderButton.checked THEN RenderButton_click(sa) ELSE sa
      s == Log(sb, "LoadFiles", NoFile, "", None)
  IN IF s.imageDirectory = ""
     THEN warningDisplay(s, "Please choose image folder")
     ELSE IF s.total_files = 0
     THEN warningDisplay(s, "There are no file to load. Please check image folder and segmentation folder")
     ELSE IF ~PyValid(s.fileset, s.current_file)
     THEN Raise(s, "IndexError")
     ELSE
       LET entry == PyAt(s.fileset, s.current_file)
           image_name == find_basename_wo_extension(basename(entry[1]))
           volume == VolumeNode(image_name, entry[1], VolumeData(entry[1]))
           s1 == Log([s EXCEPT !.currentVolumeNode = volume,
                               !.scene = @ \cup {volume}],
                     "loadVolume", entry[1], "", volume)
           loaded == SegmentationNode(find_basename_wo_extension(basename(entry[2])),
                                      entry[2], SegmentationData(entry[2]))
           withSeg ==
             Log([s1 EXCEPT !.currentSegNode = loaded,
                            !.scene = @ \cup {loaded},
                            !.editorSegmentationNode = loaded,
                            !.ThresholdCheck.enabled = FALSE,
                            !.minBox.enabled = FALSE,
                            !.maxBox.enabled = FALSE,
                            !.ApplyButton.enabled = FALSE],
                 "loadSegmentation", entry[2], "", loaded)
           created == SegmentationNode(image_name, NoFile, <<>>)
           s2 == ES_onThresholdCheck([s1 EXCEPT !.ThresholdCheck.enabled = TRUE])
           s3 == [s2 EXCEPT !.currentSegNode = created,
                            !.scene = @ \cup {created},
                            !.editorSegmentationNode = created,
                            !.maxBox.text = IntToText(ArrayMax(volume.voxels))]
           withoutSeg == IF s3.ThresholdCheck.checked THEN ThresholdSegment(s3) ELSE s3
           s4 == IF entry[2] # NoFile THEN withSeg ELSE withoutSeg
           \* lines 775-793: the rendering widgets and the display node
           s5 == [s4 EXCEPT !.renderCollapsibleButton.collapsed = FALSE,
                            !.render.enabled = TRUE,
                            !.RenderButton.enabled = TRUE,
                            !.displayNode =
                               VolumeRenderingDisplayNode(entry[1], FALSE)]
           s6 == AddVolumePropertyNodes(s5, {volumePropertyNode})
           \* lines 796-806: the presets
           s7 == AddVolumePropertyNodes(s6, {preset_nodes[i] : i \in 1..NumPresets})
           s8 == render_setCurrentNode(
                   [s7 EXCEPT !.needAddProperty = FALSE,
                              !.currentPresetNode = preset_nodes[1]],
                   preset_nodes[1], 0)
       IN IF Raised(s4) THEN s4
          \* lines 814-820
          ELSE [s8 EXCEPT !.displayNode.visibility = s8.RenderCheck,
                          !.RenderButton.checked = s8.RenderCheck]

ES_onFileCombo(s, index) ==
  LET s1 == IF s.editorSegmentationNode # None THEN RemoveCurrentScene(s) ELSE s
  IN IF s1.total_files # 0
     THEN ES_LoadFiles([s1 EXCEPT !.current_file = index])
     ELSE s1

(***************************************************************************)
(* ImplantVideo: LoadFiles.                                                *)
(***************************************************************************)
thresholdValue == 2000

\* the extraction with the threshold value itself zeroed too
ExtractImplant_inclusive(voxels) ==
  [i \in 1..Len(voxels) |-> IF voxels[i] <= thresholdValue THEN 0 ELSE voxels[i]]

\* voxels[voxels < thresholdValue] = 0
ExtractImplant(voxels) ==
  [i \in 1..Len(voxels) |-> IF voxels[i] < thresholdValue THEN 0 ELSE voxels[i]]

IV_LoadFiles(s0) ==
  LET s == Log(s0, "LoadFiles", NoFile, "", None)
  IN IF s.imageDirectory = ""
     THEN warningDisplay(s, "Please choose image folder")
     ELSE IF s.total_files = 0
     THEN warningDisplay(s, "There are no file to load. Please check image folder and segmentation folder")
     ELSE IF ~PyValid(s.fileset, s.current_file)
     THEN Raise(s, "IndexError")
     ELSE
       LET file == PyAt(s.fileset, s.current_file)
           volume == VolumeNode(basename(file), file, ExtractImplant(VolumeData(file)))
       IN Log([s EXCEPT !.currentVolumeNode = volume, !.scene = @ \cup {volume}],
              "loadVolume", file, "", volume)

IV_onFileCombo(s, index) ==
  LET s1 == IF s.currentVolumeNode # None THEN RemoveCurrentScene(s) ELSE s
  IN IF s1.total_files # 0
     THEN IV_LoadFiles([s1 EXCEPT !.current_file = index])
     ELSE s1

(***************************************************************************)
(* The file list.  FileComboBox.currentIndexChanged is connected to        *)
(* onFileCombo, which runs inside the call that changes the index.         *)
(***************************************************************************)
onFileCombo(s, index) ==
  IF s.module = "EasySegmentation" THEN ES_onFileCombo(s, index)
  ELSE IV_onFileCombo(s, index)

\* QComboBox.addItem: the first item of an empty box becomes the current one
addItem(s, text) ==
  LET s1 == [s EXCEPT !.FileComboBox.items = Append(@, text)]
  IN IF s.FileComboBox.items = <<>>
     THEN onFileCombo([s1 EXCEPT !.FileComboBox.index = 0], 0)
     ELSE s1

\* QComboBox.setCurrentIndex: an index outside the items selects nothing (-1)
setCurrentIndex(s, index) ==
  LET new == IF 0 <= index /\ index < Len(s.FileComboBox.items) THEN index ELSE -1
  IN IF new = s.FileComboBox.index THEN s
     ELSE onFileCombo([s EXCEPT !.FileComboBox.index = new], new)

\* QComboBox.clear
clear(s) ==
  LET s1 == [s EXCEPT !.FileComboBox = [items |-> <<>>, index |-> -1]]
  IN IF s.FileComboBox.index = -1 THEN s1 ELSE onFileCombo(s1, -1)

(***************************************************************************)
(* EasySegmentation: Load, Previous, Next, Reset.                          *)
(***************************************************************************)
\* the three sorted globs of onRun, one after the other
GlobFileTypes(fs, directory) ==
  LET names == Glob(fs, directory, file_types[1]) \o Glob(fs, directory, file_types[2])
               \o Glob(fs, directory, file_types[3])
  IN [i \in 1..Len(names) |-> Join(directory, names[i])]

\* NamesMatch without the test "seg_name in image_name"
NamesMatch_oneway(image_file, seg_file) ==
  In(ReSubDash(find_basename_wo_extension(basename(image_file))),
     ReSubDash(find_basename_wo_extension(basename(seg_file))))

\* the test of line 590 on an image file and a segmentation file
NamesMatch(image_file, seg_file) ==
  LET image_name == ReSubDash(find_basename_wo_extension(basename(image_file)))
      seg_name == ReSubDash(find_basename_wo_extension(basename(seg_file)))
  IN In(image_name, seg_name) \/ In(seg_name, image_name)

\* the inner loop of onRun from position k: the first segmentation file
\* that matches, "" when the loop ends without a break
RECURSIVE FindSeg(_, _, _)
FindSeg(image_file, seg_files, k) ==
  IF k > Len(seg_files) THEN NoFile
  ELSE IF NamesMatch(image_file, seg_files[k]) THEN seg_files[k]
  ELSE FindSeg(image_file, seg_files, k + 1)

\* the outer loop of onRun
BuildFileset(image_files, seg_files) ==
  [i \in 1..Len(image_files) |-> <<image_files[i], FindSeg(image_files[i], seg_files, 1)>>]

\* the number of times Load was pressed, counted up to 2 (not a field of
\* the widget: it names the states reached by one Load)
CountLoad(n) == IF n >= 2 THEN 2 ELSE n + 1

RECURSIVE ES_InsertFileComboFrom(_, _)
ES_InsertFileComboFrom(s, index) ==
  IF index >= s.total_files THEN s
  ELSE ES_InsertFileComboFrom(
         addItem(s, find_basename_wo_extension(basename(s.fileset[index + 1][1]))),
         index + 1)

ES_InsertFileCombo(s) == ES_InsertFileComboFrom(s, 0)

ES_onRun(s) ==
  LET image_files == GlobFileTypes(s.folders, s.imageDirectory)
      seg_files == GlobFileTypes(s.folders, s.segDirectory)
      built == BuildFileset(image_files, seg_files)
  IN ES_InsertFileCombo([s EXCEPT !.fileset = built,
                                  !.total_files = Len(built),
                                  !.current_file = 0,
                                  !.editorCollapsibleButton.collapsed = FALSE,
                                  !.loads = CountLoad(@)])

\* onPre without the test of the first file
ES_onPre_noGuard(s) ==
  LET s1 == RemoveCurrentScene(s)
      s2 == [s1 EXCEPT !.current_file = @ - 1]
  IN setCurrentIndex(s2, s2.current_file)

ES_onPre(s) ==
  IF s.current_file = 0
  THEN warningDisplay(s, "This is first file")
  ELSE LET s1 == RemoveCurrentScene(s)
           s2 == [s1 EXCEPT !.current_file = @ - 1]
       IN setCurrentIndex(s2, s2.current_file)

ES_onNext(s) ==
  IF s.current_file + 1 = s.total_files
  THEN warningDisplay(s, "This is last file")
  ELSE LET s1 == RemoveCurrentScene(s)
           s2 == [s1 EXCEPT !.current_file = @ + 1]
       IN setCurrentIndex(s2, s2.current_file)

ES_onReset(s) ==
  LET s1 == clear([s EXCEPT !.saveDirectory = "", !.current_file = 0,
                            !.total_files = 0, !.imageDirectory = "",
                            !.segDirectory = "", !.fileset = <<>>])
      s2 == [s1 EXCEPT !.ImageCheck = FALSE, !.SegCheck = TRUE,
                       !.RenderCheck = FALSE,
                       !.RenderButton.enabled = FALSE,
                       !.render.enabled = FALSE,
                       !.editorCollapsibleButton.collapsed = TRUE,
                       !.renderCollapsibleButton.collapsed = TRUE,
                       !.minBox = [text |-> t_0_1, enabled |-> FALSE],
                       !.maxBox = [text |-> t_100000, enabled |-> FALSE],
                       !.ApplyButton.enabled = FALSE,
                       !.suffixBox = t_seg, !.suffixButton = TRUE,
                       !.needAddProperty = TRUE, !.changeProperty = FALSE]
  IN RemoveCurrentScene(s2)

(***************************************************************************)
(* EasySegmentation: Save and Apply.                                       *)
(***************************************************************************)
Directory(components) == [dir |-> components, name |-> <<>>]

\* if not os.path.exists(directory): os.makedirs(directory)
makedirs(s, components) ==
  IF Directory(components) \in s.disk THEN s
  ELSE Log([s EXCEPT !.disk = @ \cup {Directory(components)}],
           "makedirs", Directory(components), "", None)

\* lines 638-654; exportNode and saveNode both write the node to the path
ES_SaveImage(s) ==
  LET volume_directory == SubDir(s.saveDirectory, "image")
      s1 == makedirs(s, volume_directory)
  IN IF ~PyValid(s1.fileset, s1.current_file) THEN Raise(s1, "IndexError")
     ELSE LET volumeFileName ==
                find_basename_wo_extension(basename(PyAt(s1.fileset, s1.current_file)[1]))
              volume_path == [dir |-> volume_directory,
                              name |-> volumeFileName \o ext_nii_gz]
          IN IF s1.currentVolumeNode = None THEN Raise(s1, "AttributeError")
             ELSE Log(s1, "export", volume_path, "", s1.currentVolumeNode)

\* lines 657-689
ES_SaveSegmentation(s) ==
  LET seg_directory == SubDir(s.saveDirectory, "segmentation")
      s1 == makedirs(s, seg_directory)
      s2 == [s1 EXCEPT !.scene = @ \cup {LabelMapVolumeNode}]
  IN IF s2.currentSegNode = None THEN Raise(s2, "AttributeError")
     ELSE IF ~PyValid(s2.fileset, s2.current_file) THEN Raise(s2, "IndexError")
     ELSE LET entry == PyAt(s2.fileset, s2.current_file)
              segFile == IF entry[2] # NoFile THEN basename(entry[2])
                         ELSE s2.currentSegNode.name
              segFileName == find_basename_wo_extension(segFile)
              seg_path == [dir |-> seg_directory,
                           name |-> IF s2.suffixButton
                                    THEN segFileName \o s2.suffixBox \o ext_nii_gz
                                    ELSE segFileName \o ext_nii_gz]
              s3 == Log(s2, "export", seg_path, "", s2.currentSegNode)
          IN [s3 EXCEPT !.scene = @ \ {LabelMapVolumeNode}]

\* onSave without the test of total_files
ES_onSave_noLoadGuard(s) ==
  IF s.saveDirectory = ""
  THEN warningDisplay(s, "You must set destination folder")
  ELSE LET s1 == IF s.ImageCheck THEN ES_SaveImage(s) ELSE s
       IN IF Raised(s1) THEN s1
          ELSE IF s1.SegCheck THEN ES_SaveSegmentation(s1) ELSE s1

ES_onSave(s) ==
  IF s.saveDirectory = ""
  THEN warningDisplay(s, "You must set destination folder")
  ELSE IF s.total_files = 0
  THEN warningDisplay(s, "You must load file first")
  ELSE LET s1 == IF s.ImageCheck THEN ES_SaveImage(s) ELSE s
       IN IF Raised(s1) THEN s1
          ELSE IF s1.SegCheck THEN ES_SaveSegmentation(s1) ELSE s1

ES_onApply(s) ==
  IF s.currentSegNode = None THEN Raise(s, "AttributeError")
  ELSE ThresholdSegment(s)

(***************************************************************************)
(* ImplantVideo: Load, Previous, Next, Reset.                              *)
(***************************************************************************)
RECURSIVE IV_InsertFileComboFrom(_, _)
IV_InsertFileComboFrom(s, index) ==
  IF index >= s.total_files THEN s
  ELSE LET image_basename == basename(s.fileset[index + 1])
           image_name == PyPrefix(image_basename, Find(image_basename, ext_nii_gz))
       IN IV_InsertFileComboFrom(addItem(s, image_name), index + 1)

IV_InsertFileCombo(s) == IV_InsertFileComboFrom(s, 0)

\* onRun with the file set in the reverse order
IV_onRun_reversed(s) ==
  LET names == Glob(s.folders, s.imageDirectory, ext_nii_gz)
      files == [i \in 1..Len(names) |->
                  Join(s.imageDirectory, names[Len(names) + 1 - i])]
  IN IV_InsertFileCombo([s EXCEPT !.fileset = files,
                                  !.total_files = Len(files),
                                  !.current_file = 0,
                                  !.loads = CountLoad(@)])

IV_onRun(s) ==
  LET names == Glob(s.folders, s.imageDirectory, ext_nii_gz)
      files == [i \in 1..Len(names) |-> Join(s.imageDirectory, names[i])]
  IN IV_InsertFileCombo([s EXCEPT !.fileset = files,
                                  !.total_files = Len(files),
                                  !.current_file = 0,
                                  !.loads = CountLoad(@)])

IV_onPre(s) ==
  IF s.current_file = 0
  THEN warningDisplay(s, "This is first file")
  ELSE LET s1 == RemoveCurrentScene(s)
           s2 == [s1 EXCEPT !.current_file = @ - 1]
       IN setCurrentIndex(s2, s2.current_file)

IV_onNext(s) ==
  IF s.current_file + 1 = s.total_files
  THEN warningDisplay(s, "This is last file")
  ELSE LET s1 == RemoveCurrentScene(s)
           s2 == [s1 EXCEPT !.current_file = @ + 1]
       IN setCurrentIndex(s2, s2.current_file)

IV_onReset(s) ==
  RemoveCurrentScene(clear([s EXCEPT !.saveDirectory = "", !.current_file = 0,
                                     !.total_files = 0, !.imageDirectory = "",
                                     !.fileset = <<>>]))

(***************************************************************************)
(* ImplantVideo: Create Video.  The handler is followed statement by       *)
(* statement (pc): capture and glob, write_videofile, one os.remove at a   *)
(* time.  No other handler runs before it returns.                         *)
(***************************************************************************)
image_ == <<"i", "m", "a", "g", "e", "_">>

\* "image_%05d.png" % k for k < 10
FrameName(k) == image_ \o <<"0", "0", "0", "0", Digits[k + 1]>> \o ext_png

\* the files capture3dViewRotation writes into the destination folder
Frames(directory) == {[dir |-> <<directory>>, name |-> FrameName(k)] : k \in 0..(NumFrames - 1)}

\* a glob that finds only the frames of this capture
GlobPng_captured(files, directory) ==
  LET sorted == Sorted({f.name : f \in files \cap Frames(directory)})
  IN [i \in 1..Len(sorted) |-> [dir |-> <<directory>>, name |-> sorted[i]]]

\* sorted(glob.glob(os.path.join(directory, 'image_*.png')))
GlobPng(files, directory) ==
  LET names == {f.name : f \in {g \in files : /\ g.dir = <<directory>>
                                               /\ Len(g.name) >= Len(image_) + Len(ext_png)
                                               /\ Prefix(g.name, Len(image_)) = image_
                                               /\ EndsWith(g.name, ext_png)}}
      sorted == Sorted(names)
  IN [i \in 1..Len(sorted) |-> [dir |-> <<directory>>, name |-> sorted[i]]]

\* onCreateVideo without the test of saveDirectory
IV_onCreateVideo_noGuard(s) ==
  IF ~PyValid(s.fileset, s.current_file) THEN Raise(s, "IndexError")
  ELSE LET image_basename == basename(PyAt(s.fileset, s.current_file))
           image_name == PyPrefix(image_basename, Find(image_basename, ext_nii_gz))
           s1 == Log([s EXCEPT !.video_file = [dir |-> <<s.saveDirectory>>,
                                               name |-> image_name \o ext_mp4],
                               !.disk = @ \cup Frames(s.saveDirectory)],
                     "capture3dViewRotation", Directory(<<s.saveDirectory>>), "", None)
       IN [s1 EXCEPT !.images_list = GlobPng(s1.disk, s1.saveDirectory),
                     !.pc = "write_videofile"]

\* lines 246-265
IV_onCreateVideo(s) ==
  IF s.saveDirectory = ""
  THEN warningDisplay(s, "Please choose destination folder")
  ELSE IF ~PyValid(s.fileset, s.current_file) THEN Raise(s, "IndexError")
  ELSE LET image_basename == basename(PyAt(s.fileset, s.current_file))
           image_name == PyPrefix(image_basename, Find(image_basename, ext_nii_gz))
           s1 == Log([s EXCEPT !.video_file = [dir |-> <<s.saveDirectory>>,
                                               name |-> image_name \o ext_mp4],
                               !.disk = @ \cup Frames(s.saveDirectory)],
                     "capture3dViewRotation", Directory(<<s.saveDirectory>>), "", None)
       IN [s1 EXCEPT !.images_list = GlobPng(s1.disk, s1.saveDirectory),
                     !.pc = "write_videofile"]

\* lines 268-269; the encoder writes the file or raises
IV_write_videofile(s, written) ==
  IF written
  THEN Log([s EXCEPT !.pc = "remove", !.disk = @ \cup {s.video_file}],
           "write_videofile", s.video_file, "", s.currentVolumeNode)
  ELSE Raise([s EXCEPT !.pc = "idle", !.images_list = <<>>, !.video_file = NoFile], "IOError")

\* lines 272-275
IV_remove(s) ==
  IF s.images_list = <<>>
  THEN Log([s EXCEPT !.pc = "idle", !.video_file = NoFile], "print", s.video_file, "created video", None)
  ELSE Log([s EXCEPT !.disk = @ \ {Head(s.images_list)},
                     !.images_list = Tail(@)],
           "remove", Head(s.images_list), "", None)

(***************************************************************************)
(* Logic.process, the same in both modules, and the nodes its test makes.  *)
(***************************************************************************)
\* a threshold that also clears the values equal to the threshold
ThresholdScalarVolume_inclusive(voxels, ThresholdValue, ThresholdType) ==
  [i \in 1..Len(voxels) |->
     IF ThresholdType = "Above"
     THEN (IF voxels[i] >= ThresholdValue THEN 0 ELSE voxels[i])
     ELSE (IF voxels[i] <= ThresholdValue THEN 0 ELSE voxels[i])]

\* the "Threshold Scalar Volume" CLI module with the default outside value 0:
\* 'Above' sets the values above the threshold to 0, 'Below' those below it
ThresholdScalarVolume(voxels, ThresholdValue, ThresholdType) ==
  [i \in 1..Len(voxels) |->
     IF ThresholdType = "Above"
     THEN (IF voxels[i] > ThresholdValue THEN 0 ELSE voxels[i])
     ELSE (IF voxels[i] < ThresholdValue THEN 0 ELSE voxels[i])]

\* process without the test of its arguments
process_unchecked(s, inputVolume, outputVolume, imageThreshold, invert) ==
  LET ThresholdType == IF invert THEN "Above" ELSE "Below"
      result == [outputVolume EXCEPT !.voxels =
                   ThresholdScalarVolume(inputVolume.voxels, imageThreshold,
                                         ThresholdType)]
      s1 == Log(s, "cli.run", NoFile, ThresholdType, inputVolume)
      s2 == [s1 EXCEPT !.scene = (@ \ {outputVolume}) \cup {result}]
  IN Log(s2, "RemoveNode", NoFile, "cliNode", None)

\* the CLI node is added by slicer.cli.run and removed again before return
process(s, inputVolume, outputVolume, imageThreshold, invert) ==
  IF inputVolume = None \/ outputVolume = None
  THEN Raise(s, "ValueError('Input or output volume is invalid')")
  ELSE LET ThresholdType == IF invert THEN "Above" ELSE "Below"
           result == [outputVolume EXCEPT !.voxels =
                        ThresholdScalarVolume(inputVolume.voxels, imageThreshold,
                                              ThresholdType)]
           s1 == Log(s, "cli.run", NoFile, ThresholdType, inputVolume)
           s2 == [s1 EXCEPT !.scene = (@ \ {outputVolume}) \cup {result},
                            !.currentVolumeNode =
                               IF @ = outputVolume THEN result ELSE @]
       IN Log(s2, "RemoveNode", NoFile, "cliNode", None)

\* the arrays the sample volume of the test may hold, and the thresholds
SampleArrays == {<<0, 100, 695>>, <<5, 50, 20>>, <<0, 50>>}
Thresholds == {100, 20}

n_sample == <<"s", "a", "m", "p", "l", "e">>
n_output == <<"o", "u", "t", "p", "u", "t">>

\* inputVolume = SampleData.downloadSample(...)
downloadSample(s, voxels) ==
  [s EXCEPT !.scene = @ \cup {VolumeNode(n_sample, NoFile, voxels)}]

\* outputVolume = slicer.mrmlScene.AddNewNodeByClass("vtkMRMLScalarVolumeNode")
AddNewVolumeNode(s) ==
  [s EXCEPT !.scene = @ \cup {VolumeNode(n_output, NoFile, <<>>)}]

\* the scalar volume nodes of the scene, and None for a missing argument
VolumeArguments ==
  {n \in scene : n.class = "vtkMRMLScalarVolumeNode"} \cup {None}

(***************************************************************************)
(* Folder dialogs, check boxes and text boxes.                             *)
(***************************************************************************)
\* self.imageDirectory = qfiledialog.getExistingDirectory()
onLoadImage(s, directory) == [s EXCEPT !.imageDirectory = directory]

onLoadSeg(s, directory) == [s EXCEPT !.segDirectory = directory]

onDir(s, directory) == [s EXCEPT !.saveDirectory = directory]

(***************************************************************************)
(* The state after __init__ and setup.                                     *)
(***************************************************************************)
Modules == {"EasySegmentation", "ImplantVideo"}

\* the fields and widgets as __init__ and the widget part of setup set them
InitFields ==
  /\ saveDirectory = "" /\ imageDirectory = "" /\ segDirectory = ""
  /\ fileset = <<>> /\ current_file = 0 /\ total_files = 0
  /\ FileComboBox = [items |-> <<>>, index |-> -1]
  /\ ImageCheck = FALSE /\ SegCheck = TRUE
  /\ suffixBox = t_seg /\ suffixButton = TRUE
  /\ ThresholdCheck = [checked |-> FALSE, enabled |-> TRUE]
  /\ minBox = [text |-> t_0_1, enabled |-> FALSE]
  /\ maxBox = [text |-> t_100000, enabled |-> FALSE]
  /\ ApplyButton = [enabled |-> FALSE]
  /\ needAddProperty = TRUE /\ changeProperty = FALSE
  /\ currentVolumeNode = None /\ currentSegNode = None
  /\ editorSegmentationNode = None
  /\ scene = {} /\ log = <<>>
  /\ images_list = <<>> /\ video_file = NoFile /\ loads = 0
  /\ RenderCheck = FALSE
  /\ RenderButton = [checked |-> FALSE, enabled |-> FALSE]
  /\ render = [enabled |-> FALSE]
  /\ editorCollapsibleButton = [collapsed |-> TRUE]
  /\ renderCollapsibleButton = [collapsed |-> TRUE]
  /\ displayNode = NoDisplay
  /\ PresetComboBox = [nodes |-> {}, current |-> NoPreset]
  /\ PresetOffsetSlider = [value |-> 0]
  /\ OldPresetPosition = 0
  /\ currentPresetNode = NoPreset /\ newPresetNode = NoPreset

\* setup has made its call of selectParameterNode, which found no segment
\* editor node in the scene, and the module is shown (enter)
InitWidget ==
  /\ InitFields
  /\ lastOp = "setup" /\ pc = "idle"
  /\ parameterSetNode = (IF module = "EasySegmentation" THEN 1 ELSE NoNode)
  /\ editorSegmentEditorNode = parameterSetNode
  /\ segmentEditorNodes = (IF module = "EasySegmentation" THEN {1} ELSE {})
  /\ isEntered = TRUE

\* a screenshot left in the destination folder by an earlier run
OldPng == [dir |-> <<"out">>, name |-> n_old_png]

Init ==
  /\ module \in Modules
  /\ folders \in NavFolders
  /\ disk \in IF module = "ImplantVideo" THEN {{}, {OldPng}} ELSE {{}}
  /\ InitWidget

(***************************************************************************)
(* The actions: one per button, check box, text box and file list.         *)
(***************************************************************************)
Idle(m) == module = m /\ pc = "idle"

ES_loadImageButton == /\ Idle("EasySegmentation")
                      /\ \E d \in InputDirs : Commit(onLoadImage(Begin("input"), d))

ES_loadSegButton == /\ Idle("EasySegmentation")
                    /\ \E d \in SegDirs : Commit(onLoadSeg(Begin("input"), d))

ES_DirButton == /\ Idle("EasySegmentation")
                /\ \E d \in OutputDirs : Commit(onDir(Begin("input"), d))

ES_RunButton == /\ Idle("EasySegmentation")
                /\ Len(FileComboBox.items) < MaxComboItems
                /\ Commit(ES_onRun(Begin("onRun")))

ES_PreButton == /\ Idle("EasySegmentation")
                /\ current_file > -MaxIndex
                /\ Commit(ES_onPre(Begin("onPre")))

ES_NextButton == /\ Idle("EasySegmentation")
                 /\ current_file < MaxIndex
                 /\ Commit(ES_onNext(Begin("onNext")))

ES_ResetButton == /\ Idle("EasySegmentation")
                  /\ Commit(ES_onReset(Begin("onReset")))

\* the user picks another entry of the file list
ES_FileComboBox == /\ Idle("EasySegmentation")
                   /\ \E i \in 0..(Len(FileComboBox.items) - 1) :
                        /\ i # FileComboBox.index
                        /\ Commit(onFileCombo([Begin("onFileCombo") EXCEPT
                                                 !.FileComboBox.index = i], i))

ES_SaveButton == /\ Idle("EasySegmentation")
                 /\ Commit(ES_onSave(Begin("onSave")))

\* onImageCheck, onSegCheck and onSuffix do nothing: the click toggles the box
ES_ImageCheck == /\ Idle("EasySegmentation")
                 /\ Commit([Begin("input") EXCEPT !.ImageCheck = ~@])

ES_SegCheck == /\ Idle("EasySegmentation")
               /\ Commit([Begin("input") EXCEPT !.SegCheck = ~@])

ES_suffixButton == /\ Idle("EasySegmentation")
                   /\ Commit([Begin("input") EXCEPT !.suffixButton = ~@])

ES_ThresholdCheck == /\ Idle("EasySegmentation")
                     /\ ThresholdCheck.enabled
                     /\ Commit(ES_onThresholdCheck([Begin("input") EXCEPT
                                                      !.ThresholdCheck.checked = ~@]))

ES_ApplyButton == /\ Idle("EasySegmentation")
                  /\ ApplyButton.enabled
                  /\ Commit(ES_onApply(Begin("onApply")))

\* the user types in a text box; no handler is connected
ES_minBox == /\ Idle("EasySegmentation")
             /\ minBox.enabled
             /\ \E t \in MinTexts \ {minBox.text} :
                  Commit([Begin("input") EXCEPT !.minBox.text = t])

ES_maxBox == /\ Idle("EasySegmentation")
             /\ maxBox.enabled
             /\ \E t \in MaxTexts \ {maxBox.text} :
                  Commit([Begin("input") EXCEPT !.maxBox.text = t])

ES_suffixBox == /\ Idle("EasySegmentation")
                /\ \E t \in SuffixTexts \ {suffixBox} :
                     Commit([Begin("input") EXCEPT !.suffixBox = t])

\* RenderCheck is connected to onRenderingCheck, which does nothing
ES_RenderCheck == /\ Idle("EasySegmentation")
                  /\ Commit([Begin("input") EXCEPT !.RenderCheck = ~@])

\* RenderButton is checkable and connected to onRendering
ES_RenderButton == /\ Idle("EasySegmentation")
                   /\ RenderButton.enabled
                   /\ Commit(RenderButton_click(Begin("onRendering")))

\* setup, at its call of selectParameterNode (line 303)
\* the user chooses the node in the preset list
PresetComboBox_select(node) ==
  /\ Idle("EasySegmentation")
  /\ render.enabled
  /\ node \in PresetComboBox.nodes \ {PresetComboBox.current}
  /\ Commit(onPresetCombo([Begin("onPresetCombo") EXCEPT
                             !.PresetComboBox.current = node], node, 1))

ES_PresetComboBox == \E node \in 1..(NumPresets + 1) : PresetComboBox_select(node)

\* the user moves the preset offset slider
ES_PresetOffsetSlider ==
  /\ Idle("EasySegmentation")
  /\ render.enabled
  /\ \E value \in SliderPositions \ {PresetOffsetSlider.value} :
       Commit(PresetOffsetSlider_setValue(Begin("offsetPreset"), value))

ES_setup ==
  /\ module = "EasySegmentation" /\ pc = "setup"
  /\ Commit([selectParameterNode(Begin("setup")) EXCEPT !.pc = "idle"])

\* the user opens the module, or another one
ES_enter == /\ Idle("EasySegmentation")
            /\ ~isEntered
            /\ Commit(enter(Begin("enter")))

ES_exit == /\ Idle("EasySegmentation")
           /\ isEntered
           /\ Commit(exit(Begin("exit")))

\* the scene is cleared from outside the widget: StartCloseEvent, the
\* clear with or without the singleton nodes, EndCloseEvent
ES_SceneStartClose ==
  /\ Idle("EasySegmentation")
  /\ Commit([onSceneStartClose(Begin("onSceneStartClose")) EXCEPT !.pc = "Clear"])

ES_SceneClear ==
  /\ module = "EasySegmentation" /\ pc = "Clear"
  /\ \E removeSingletons \in BOOLEAN, editorKeeps \in BOOLEAN :
       /\ removeSingletons => NewSegmentEditorNode(Self) <= MaxEditorNodes
       /\ Commit([Clear([Self EXCEPT !.lastOp = "Clear"], removeSingletons,
                        editorKeeps) EXCEPT !.pc = "EndClose"])

ES_SceneEndClose ==
  /\ module = "EasySegmentation" /\ pc = "EndClose"
  /\ Commit([onSceneEndClose([Self EXCEPT !.lastOp = IF isEntered
                                                     THEN "onSceneEndClose"
                                                     ELSE "Clear"])
               EXCEPT !.pc = "idle"])

\* the steps of the test of the logic: a sample volume, an output volume,
\* and calls of process with any arguments
Test_downloadSample ==
  /\ pc = "idle"
  /\ \A n \in scene : n.name # n_sample
  /\ \E voxels \in SampleArrays : Commit(downloadSample(Begin("input"), voxels))

Test_AddNewVolumeNode ==
  /\ pc = "idle"
  /\ \A n \in scene : n.name # n_output
  /\ Commit(AddNewVolumeNode(Begin("input")))

Logic_process(inputVolume, outputVolume, imageThreshold, invert) ==
  /\ pc = "idle"
  /\ Commit(process(Begin("process"), inputVolume, outputVolume, imageThreshold,
                    invert))

Test_process ==
  \E inputVolume \in VolumeArguments, outputVolume \in VolumeArguments,
     imageThreshold \in Thresholds, invert \in BOOLEAN :
    Logic_process(inputVolume, outputVolume, imageThreshold, invert)

IV_loadImageButton == /\ Idle("ImplantVideo")
                      /\ \E d \in InputDirs : Commit(onLoadImage(Begin("input"), d))

IV_DirButton == /\ Idle("ImplantVideo")
                /\ \E d \in OutputDirs : Commit(onDir(Begin("input"), d))

IV_RunButton == /\ Idle("ImplantVideo")
                /\ Len(FileComboBox.items) < MaxComboItems
                /\ Commit(IV_onRun(Begin("onRun")))

IV_PreButton == /\ Idle("ImplantVideo")
                /\ current_file > -MaxIndex
                /\ Commit(IV_onPre(Begin("onPre")))

IV_NextButton == /\ Idle("ImplantVideo")
                 /\ current_file < MaxIndex
                 /\ Commit(IV_onNext(Begin("onNext")))

IV_ResetButton == /\ Idle("ImplantVideo")
                  /\ Commit(IV_onReset(Begin("onReset")))

IV_FileComboBox == /\ Idle("ImplantVideo")
                   /\ \E i \in 0..(Len(FileComboBox.items) - 1) :
                        /\ i # FileComboBox.index
                        /\ Commit(onFileCombo([Begin("onFileCombo") EXCEPT
                                                 !.FileComboBox.index = i], i))

IV_CreateVideoButton == /\ Idle("ImplantVideo")
                        /\ Commit(IV_onCreateVideo(Begin("onCreateVideo")))

IV_CreateVideo_write == /\ module = "ImplantVideo" /\ pc = "write_videofile"
                        /\ \E written \in BOOLEAN : Commit(IV_write_videofile(Self, written))

IV_CreateVideo_remove == /\ module = "ImplantVideo" /\ pc = "remove"
                         /\ Commit(IV_remove(Self))

Next ==
  \/ ES_loadImageButton \/ ES_loadSegButton \/ ES_DirButton \/ ES_RunButton
  \/ ES_PreButton \/ ES_NextButton \/ ES_ResetButton \/ ES_FileComboBox
  \/ ES_SaveButton \/ ES_ImageCheck \/ ES_SegCheck \/ ES_suffixButton
  \/ ES_ThresholdCheck \/ ES_ApplyButton \/ ES_minBox \/ ES_maxBox \/ ES_suffixBox
  \/ ES_RenderCheck \/ ES_RenderButton
  \/ ES_PresetComboBox \/ ES_PresetOffsetSlider
  \/ Test_downloadSample \/ Test_AddNewVolumeNode \/ Test_process
  \/ ES_setup \/ ES_enter \/ ES_exit
  \/ ES_SceneStartClose \/ ES_SceneClear \/ ES_SceneEndClose
  \/ IV_loadImageButton \/ IV_DirButton \/ IV_RunButton \/ IV_PreButton
  \/ IV_NextButton \/ IV_ResetButton \/ IV_FileComboBox \/ IV_CreateVideoButton
  \/ IV_CreateVideo_write \/ IV_CreateVideo_remove

Spec == Init /\ [][Next]_vars

(***************************************************************************)
(* The parts of the program that are explored.  The widget state is the    *)
(* product of the navigation state, the save options and the threshold     *)
(* options, so each group of handlers is explored with the handlers that   *)
(* bring the widget into the states the group depends on.                  *)
(***************************************************************************)
\* Load, Previous, Next, Reset, the file list and Create Video, both modules
NextNav ==
  \/ ES_loadImageButton \/ ES_loadSegButton \/ ES_RunButton
  \/ ES_PreButton \/ ES_NextButton \/ ES_ResetButton \/ ES_FileComboBox
  \/ IV_loadImageButton \/ IV_DirButton \/ IV_RunButton \/ IV_PreButton
  \/ IV_NextButton \/ IV_ResetButton \/ IV_FileComboBox \/ IV_CreateVideoButton
  \/ IV_CreateVideo_write \/ IV_CreateVideo_remove

SpecNav == Init /\ [][NextNav]_vars

InitES == module = "EasySegmentation" /\ folders \in NavFolders /\ disk = {} /\ InitWidget

\* Save with its options, EasySegmentation
NextSave ==
  \/ ES_loadImageButton \/ ES_loadSegButton \/ ES_DirButton \/ ES_RunButton
  \/ ES_NextButton \/ ES_SaveButton \/ ES_ImageCheck \/ ES_SegCheck
  \/ ES_suffixButton \/ ES_suffixBox

SpecSave == InitES /\ [][NextSave]_vars

\* the threshold widgets, EasySegmentation
NextThreshold ==
  \/ ES_loadImageButton \/ ES_loadSegButton \/ ES_RunButton \/ ES_NextButton
  \/ ES_ThresholdCheck \/ ES_ApplyButton \/ ES_minBox \/ ES_maxBox

SpecThreshold == InitES /\ [][NextThreshold]_vars

\* Reset after the widgets were used, EasySegmentation
NextReset ==
  \/ ES_loadImageButton \/ ES_loadSegButton \/ ES_DirButton \/ ES_RunButton
  \/ ES_ResetButton \/ ES_ImageCheck \/ ES_ThresholdCheck
  \/ ES_RenderCheck \/ ES_RenderButton

SpecReset == InitES /\ [][NextReset]_vars

\* the segment editor node: the widget from __init__ on, in a scene that may
\* already hold the singleton node of another module
InitParam ==
  /\ module = "EasySegmentation" /\ folders \in NavFolders /\ disk = {}
  /\ InitFields
  /\ lastOp = "__init__" /\ pc = "setup"
  /\ parameterSetNode = NoNode /\ editorSegmentEditorNode = NoNode
  /\ segmentEditorNodes \in {{}, {1}}
  /\ isEntered = FALSE

NextParam ==
  \/ ES_setup \/ ES_enter \/ ES_exit
  \/ ES_SceneStartClose \/ ES_SceneClear \/ ES_SceneEndClose
  \/ ES_loadImageButton \/ ES_RunButton \/ ES_ResetButton

SpecParam == InitParam /\ [][NextParam]_vars

\* the presets, the offset slider and a scene closed from outside the module
NextPreset ==
  \/ ES_loadImageButton \/ ES_RunButton \/ ES_NextButton \/ ES_ResetButton
  \/ ES_PresetComboBox \/ ES_PresetOffsetSlider
  \/ ES_SceneStartClose \/ ES_SceneClear \/ ES_SceneEndClose

SpecPreset == InitES /\ [][NextPreset]_vars

\* the volume rendering widgets over loads that succeed and loads that stop
\* at the threshold
NextRender ==
  \/ ES_loadImageButton \/ ES_loadSegButton \/ ES_RunButton \/ ES_NextButton
  \/ ES_ResetButton \/ ES_RenderCheck \/ ES_RenderButton
  \/ ES_ThresholdCheck \/ ES_minBox

SpecRender == InitES /\ [][NextRender]_vars

\* Load of ImplantVideo on every content of the two folders
InitRunVideo ==
  /\ module = "ImplantVideo"
  /\ folders \in VideoFolders
  /\ disk = {}
  /\ InitWidget

NextRunVideo == IV_loadImageButton \/ IV_RunButton

SpecRunVideo == InitRunVideo /\ [][NextRunVideo]_vars

\* the logic of either module, called as its test calls it
NextLogic == Test_downloadSample \/ Test_AddNewVolumeNode \/ Test_process

SpecLogic == Init /\ [][NextLogic]_vars

\* Load on every content of the two folders: the folders are drawn from
\* WideFolders and only the folder dialogs and Load are used
InitRun ==
  /\ module = "EasySegmentation"
  /\ folders \in WideFolders
  /\ disk = {}
  /\ InitWidget

NextRun == ES_loadImageButton \/ ES_loadSegButton \/ ES_RunButton

SpecRun == InitRun /\ [][NextRun]_vars

(***************************************************************************)
(* Properties of Load (EasySegmentation).                                  *)
(***************************************************************************)
\* a file name that one of the patterns *.nrrd, *.nii, *.nii.gz matches
IsImageName(n) ==
  /\ n # <<>> /\ n[1] # "."
  /\ \E e \in {ext_nrrd, ext_nii, ext_nii_gz} : EndsWith(n, e)

\* the files of a folder that the patterns match
MatchingFiles(directory) ==
  {Join(directory, n) : n \in {m \in folders[directory] : IsImageName(m)}}

\* C1: after Load, fileset holds exactly one pair [image file, segmentation
\* file or ""] for each file of the image folder that *.nrrd, *.nii or
\* *.nii.gz matches, no image file twice, total_files is the number of
\* those files and current_file is 0
C1_FilesetCoversImages ==
  lastOp = "onRun" =>
    /\ {fileset[i][1] : i \in 1..Len(fileset)} = MatchingFiles(imageDirectory)
    /\ \A i, j \in 1..Len(fileset) : fileset[i][1] = fileset[j][1] => i = j
    /\ \A i \in 1..Len(fileset) :
         /\ Len(fileset[i]) = 2
         /\ fileset[i][2] = NoFile \/ fileset[i][2] \in MatchingFiles(segDirectory)
    /\ total_files = Cardinality(MatchingFiles(imageDirectory))
    /\ current_file = 0

\* Load has run on a folder with a matching file and a file no pattern matches
C1_Witness ==
  /\ lastOp = "onRun"
  /\ total_files >= 1
  /\ Cardinality(folders[imageDirectory]) > total_files

\* s with '-' read as '_' and every '_' that follows a '_' left out
Collapsed(s) ==
  LET u == [i \in 1..Len(s) |-> IF s[i] = "-" THEN "_" ELSE s[i]]
      keep == {i \in 1..Len(s) : u[i] # "_" \/ i = 1 \/ u[i - 1] # "_"}
      kth(k) == CHOOSE i \in keep : Cardinality({j \in keep : j <= i}) = k
  IN [k \in 1..Cardinality(keep) |-> u[kth(k)]]

Contains(s, part) ==
  \E off \in 0..(Len(s) - Len(part)) :
    \A i \in 1..Len(part) : s[off + i] = part[i]

\* the matching rule on two files, on the names find_basename_wo_extension gives
Pairs(image_file, seg_file) ==
  LET image_name == Collapsed(find_basename_wo_extension(image_file.name))
      seg_name == Collapsed(find_basename_wo_extension(seg_file.name))
  IN Contains(seg_name, image_name) \/ Contains(image_name, seg_name)

\* the position of the pattern that matches a file name
TypeRank(n) == IF EndsWith(n, ext_nrrd) THEN 1 ELSE IF EndsWith(n, ext_nii) THEN 2 ELSE 3

\* f is scanned before g: by pattern, then by name
ScannedBefore(f, g) ==
  \/ TypeRank(f.name) < TypeRank(g.name)
  \/ TypeRank(f.name) = TypeRank(g.name) /\ StrLess(f.name, g.name)

\* C2: after Load every image is paired with the first segmentation file, in
\* the scanned order, whose collapsed name contains the collapsed image name
\* or is contained in it, and with "" when there is none
C2_PairedWithFirstMatch ==
  lastOp = "onRun" =>
    \A i \in 1..Len(fileset) :
      LET image_file == fileset[i][1]
          seg_file == fileset[i][2]
          candidates == {g \in MatchingFiles(segDirectory) : Pairs(image_file, g)}
      IN IF candidates = {} THEN seg_file = NoFile
         ELSE /\ seg_file \in candidates
              /\ \A g \in candidates \ {seg_file} : ScannedBefore(seg_file, g)

\* Load has paired an image through the collapsing of '-' and '__' only, has
\* chosen among two candidates, and has left another image without a pair
C2_Witness ==
  /\ lastOp = "onRun"
  /\ \E i \in 1..Len(fileset) :
       /\ fileset[i][2] # NoFile
       /\ ~Contains(find_basename_wo_extension(fileset[i][2].name),
                    find_basename_wo_extension(fileset[i][1].name))
       /\ Contains(find_basename_wo_extension(fileset[i][1].name), <<"-">>)
  /\ \E i \in 1..Len(fileset) :
       Cardinality({g \in MatchingFiles(segDirectory) : Pairs(fileset[i][1], g)}) = 2
  /\ \E i \in 1..Len(fileset) : fileset[i][2] = NoFile

(***************************************************************************)
(* Handlers that warn and return.                                          *)
(***************************************************************************)
\* the fields of the widget, without the scene and the disk
ModuleState ==
  <<module, folders, saveDirectory, imageDirectory, segDirectory, fileset,
    current_file, total_files, FileComboBox, ImageCheck, SegCheck, suffixBox,
    suffixButton, ThresholdCheck, minBox, maxBox, ApplyButton, needAddProperty,
    changeProperty, currentVolumeNode, currentSegNode, editorSegmentationNode,
    pc, images_list, video_file, RenderCheck, RenderButton, render,
    editorCollapsibleButton, renderCollapsibleButton, displayNode,
    parameterSetNode, editorSegmentEditorNode, segmentEditorNodes, isEntered,
    PresetComboBox, PresetOffsetSlider, OldPresetPosition, currentPresetNode,
    newPresetNode>>

\* the record of a handler that did nothing but show the one warning msg
OnlyWarning(msg) == <<Event("warning", NoFile, msg, None)>>

\* C3: when Save is pressed with no destination folder, the handler only
\* shows 'You must set destination folder'; with a destination folder and
\* total_files 0 it only shows 'You must load file first'.  In both cases
\* the disk, the scene and every field of the widget stay as they were.
C3_SaveGuards ==
  [][(lastOp' = "onSave" /\ (saveDirectory = "" \/ total_files = 0)) =>
       /\ log' = OnlyWarning(IF saveDirectory = ""
                             THEN "You must set destination folder"
                             ELSE "You must load file first")
       /\ disk' = disk
       /\ scene' = scene
       /\ UNCHANGED ModuleState]_vars

C3_Witness ==
  /\ lastOp = "onSave"
  /\ saveDirectory # "" /\ total_files = 0
  /\ Warned("You must load file first")
  /\ SegCheck

\* the files the last handler wrote with exportNode / saveNode
Exported == {log[i].path : i \in Events("export")}

\* C4: when Save is pressed with a destination folder and total_files not 0,
\* the volume is written to <saveDirectory>/image/<image name>.nii.gz exactly
\* when the Image box is checked, the segmentation is written to
\* <saveDirectory>/segmentation/<segmentation name><suffix>.nii.gz exactly
\* when the Segmentation box is checked (<suffix> is the text of the suffix
\* box when the suffix button is checked, else empty), and nothing else is
\* written.
C4_SaveOutput ==
  (lastOp = "onSave" /\ saveDirectory # "" /\ total_files # 0) =>
    LET entry == PyAt(fileset, current_file)
        image_path == [dir |-> SubDir(saveDirectory, "image"),
                       name |-> find_basename_wo_extension(basename(entry[1]))
                                \o ext_nii_gz]
        seg_name == IF entry[2] # NoFile
                    THEN find_basename_wo_extension(basename(entry[2]))
                    ELSE find_basename_wo_extension(currentSegNode.name)
        suffix == IF suffixButton THEN suffixBox ELSE <<>>
        seg_path == [dir |-> SubDir(saveDirectory, "segmentation"),
                     name |-> seg_name \o suffix \o ext_nii_gz]
    IN /\ PyValid(fileset, current_file)
       /\ Exported = (IF ImageCheck THEN {image_path} ELSE {})
                       \cup (IF SegCheck THEN {seg_path} ELSE {})

\* C5: after Apply with numeric texts in the min and max boxes, the segment
\* 'Segment_1' of the current segmentation exists and each of its voxels is 1
\* exactly when min <= voxel of the volume <= max, and 0 otherwise.
C5_ThresholdInclusive ==
  (/\ lastOp = "onApply"
   /\ IsNumeric(minBox.text) /\ IsNumeric(maxBox.text)
   /\ currentSegNode # None) =>
    LET segments == currentSegNode.segments
        volume == currentVolumeNode.voxels
    IN /\ \E k \in 1..Len(segments) : segments[k][1] = "Segment_1"
       /\ \A k \in 1..Len(segments) :
            segments[k][1] = "Segment_1" =>
              /\ Len(segments[k][2]) = Len(volume)
              /\ \A i \in 1..Len(volume) :
                   IF Float(minBox.text) <= 10 * volume[i]
                      /\ 10 * volume[i] <= Float(maxBox.text)
                   THEN segments[k][2][i] = 1
                   ELSE segments[k][2][i] = 0

C5_Witness ==
  /\ lastOp = "onApply"
  /\ IsNumeric(minBox.text) /\ IsNumeric(maxBox.text)
  /\ currentSegNode # None
  /\ \E i \in 1..Len(currentVolumeNode.voxels) :
       /\ 10 * currentVolumeNode.voxels[i] = Float(maxBox.text)
       /\ 10 * currentVolumeNode.voxels[i] = Float(minBox.text)
  /\ \E i \in 1..Len(currentVolumeNode.voxels) :
       10 * currentVolumeNode.voxels[i] < Float(minBox.text)

(***************************************************************************)
(* ImplantVideo: Create Video.                                             *)
(***************************************************************************)
\* the name matches the pattern image_*.png
IsFramePng(n) ==
  /\ Len(n) >= Len(image_) + Len(ext_png)
  /\ SubSeq(n, 1, Len(image_)) = image_
  /\ SubSeq(n, Len(n) - Len(ext_png) + 1, Len(n)) = ext_png

\* the PNG frames in the destination folder
FramesLeft == {f \in disk : f.dir = <<saveDirectory>> /\ IsFramePng(f.name)}

\* the name of the current image without its .nii.gz
CurrentImageName ==
  LET n == basename(PyAt(fileset, current_file))
  IN SubSeq(n, 1, Len(n) - Len(ext_nii_gz))

\* Create Video went through to its last statement
Completed ==
  /\ lastOp = "onCreateVideo" /\ pc = "idle"
  /\ log # <<>> /\ log[Len(log)].ev = "print"

\* C6: when Create Video has gone through to its end, the video it wrote is
\* <saveDirectory>/<current image name>.mp4 and no file image_*.png is left
\* in saveDirectory; and a step that deletes a PNG frame is taken only after
\* the video file has been written.
C6_VideoThenCleanup ==
  [][/\ Completed' =>
          /\ \E i \in 1..Len(log') :
               /\ log'[i].ev = "write_videofile"
               /\ log'[i].path = [dir |-> <<saveDirectory'>>,
                                  name |-> CurrentImageName' \o ext_mp4]
               /\ log'[i].path \in disk'
          /\ FramesLeft' = {}
     /\ (\E f \in disk \ disk' : IsFramePng(f.name)) =>
          /\ Events("write_videofile") # {}
          /\ \A i \in Events("write_videofile") : log[i].path \in disk]_vars

C6_Witness ==
  /\ Completed
  /\ Cardinality(Events("remove")) > NumFrames
  /\ current_file = 1

\* C7: when Create Video is pressed with no destination folder, the handler
\* only shows 'Please choose destination folder': no capture, no video, no
\* file deleted, and every field of the widget, the scene and the disk stay
\* as they were.
C7_CreateVideoGuard ==
  [][(lastOp' = "onCreateVideo" /\ pc = "idle" /\ saveDirectory = "") =>
       /\ log' = OnlyWarning("Please choose destination folder")
       /\ disk' = disk
       /\ scene' = scene
       /\ UNCHANGED ModuleState]_vars

C7_Witness ==
  /\ lastOp = "onCreateVideo" /\ pc = "idle"
  /\ Warned("Please choose destination folder")
  /\ total_files > 0 /\ scene # {}

(***************************************************************************)
(* Previous and Next, in both modules.                                     *)
(***************************************************************************)
\* C8: when Previous is pressed with current_file 0, the handler only shows
\* 'This is first file' (no scene clear, no load) and current_file, the
\* selection of the file list and the scene stay as they were.
C8_PreAtFirst ==
  [][(lastOp' = "onPre" /\ current_file = 0) =>
       /\ log' = OnlyWarning("This is first file")
       /\ UNCHANGED <<current_file, FileComboBox, scene>>]_vars

C8_Witness ==
  /\ lastOp = "onPre"
  /\ Warned("This is first file")
  /\ total_files > 1 /\ scene # {}

\* C9: when Next is pressed and no file comes after the current one (also
\* when no file set is loaded), the handler only shows 'This is last file'
\* and current_file, the selection of the file list and the scene stay as
\* they were.
C9_NextAtLast ==
  [][(lastOp' = "onNext" /\ current_file + 1 >= total_files) =>
       /\ log' = OnlyWarning("This is last file")
       /\ UNCHANGED <<current_file, FileComboBox, scene>>]_vars

\* the image file of entry i of the file set
ImageOf(m, entry) == IF m = "EasySegmentation" THEN entry[1] ELSE entry

\* C10: after one Load, with 0 <= current_file < total_files, Next when not
\* at the last file (Previous when not at the first) clears the scene first,
\* moves current_file by +1 (-1), sets the index of the file list to the new
\* current_file and calls LoadFiles exactly once, which loads
\* fileset[current_file].
C10_Step ==
  [][(/\ loads = 1
      /\ 0 <= current_file /\ current_file < total_files
      /\ \/ lastOp' = "onNext" /\ current_file + 1 # total_files
         \/ lastOp' = "onPre" /\ current_file # 0) =>
       /\ log' # <<>> /\ log'[1].ev = "Clear"
       /\ current_file' = current_file + (IF lastOp' = "onNext" THEN 1 ELSE -1)
       /\ FileComboBox'.index = current_file'
       /\ Cardinality({i \in 1..Len(log') : log'[i].ev = "LoadFiles"}) = 1
       /\ Cardinality({i \in 1..Len(log') : log'[i].ev = "loadVolume"}) = 1
       /\ \A i \in 1..Len(log') :
            log'[i].ev = "loadVolume" =>
              /\ PyValid(fileset', current_file')
              /\ log'[i].path = ImageOf(module', PyAt(fileset', current_file'))
              /\ currentVolumeNode' = log'[i].node
              /\ currentVolumeNode' \in scene']_vars

(***************************************************************************)
(* Load, in both modules.                                                  *)
(***************************************************************************)
\* C11: every press of Load that finds at least one file set (in a chosen
\* image folder) loads file set 0: afterwards the current volume is in the
\* scene and is the one read from the image of fileset[0].
C11_LoadLoadsFirst ==
  (lastOp = "onRun" /\ imageDirectory # "" /\ total_files > 0) =>
    /\ currentVolumeNode \in scene
    /\ currentVolumeNode.file = ImageOf(module, fileset[1])

\* C12: when Load finds no file set in the chosen image folder (total_files
\* is 0) the warning 'There are no file to load. Please check image folder
\* and segmentation folder' is shown.
C12_WarnsNothingToLoad ==
  (lastOp = "onRun" /\ imageDirectory # "" /\ total_files = 0) =>
    Warned("There are no file to load. Please check image folder and segmentation folder")

\* C13: when Load is pressed with no image folder chosen, the warning
\* 'Please choose image folder' is shown, no volume is loaded and
\* total_files is 0.
C13_WarnsNoImageFolder ==
  (lastOp = "onRun" /\ imageDirectory = "") =>
    /\ Warned("Please choose image folder")
    /\ Events("loadVolume") = {}
    /\ total_files = 0

(***************************************************************************)
(* Reset Module, EasySegmentation.                                         *)
(***************************************************************************)
\* the values __init__ and setup give to the fields and widgets
AsAfterSetup ==
  /\ saveDirectory = "" /\ imageDirectory = "" /\ segDirectory = ""
  /\ current_file = 0 /\ total_files = 0
  /\ FileComboBox = [items |-> <<>>, index |-> -1]
  /\ ImageCheck = FALSE /\ SegCheck = TRUE /\ RenderCheck = FALSE
  /\ ThresholdCheck = [checked |-> FALSE, enabled |-> TRUE]
  /\ minBox = [text |-> t_0_1, enabled |-> FALSE]
  /\ maxBox = [text |-> t_100000, enabled |-> FALSE]
  /\ ApplyButton = [enabled |-> FALSE]
  /\ suffixBox = t_seg /\ suffixButton = TRUE
  /\ RenderButton = [checked |-> FALSE, enabled |-> FALSE]
  /\ render = [enabled |-> FALSE]
  /\ editorCollapsibleButton = [collapsed |-> TRUE]
  /\ renderCollapsibleButton = [collapsed |-> TRUE]
  /\ needAddProperty = TRUE /\ changeProperty = FALSE

\* C14: after Reset Module, from any reachable state, the directories,
\* current_file, total_files, the file list, the Image / Segmentation /
\* Rendering / Threshold check boxes and their enabled state, the min and max
\* boxes, the Apply button, the suffix box and button, the Display Volume
\* Rendering button and the collapsed panels have the values they had right
\* after setup, and the scene is empty.
C14_ResetRestoresSetup ==
  (module = "EasySegmentation" /\ lastOp = "onReset") =>
    AsAfterSetup /\ scene = {}

(***************************************************************************)
(* Logic.process.                                                          *)
(***************************************************************************)
\* C15: a call of process with the input or the output volume missing
\* raises ValueError('Input or output volume is invalid') and does nothing
\* else: the CLI module is not run and the scene is as before.
C15_ProcessValidates ==
  [][\A inputVolume \in VolumeArguments, outputVolume \in VolumeArguments,
        imageThreshold \in Thresholds, invert \in BOOLEAN :
       (/\ inputVolume = None \/ outputVolume = None
        /\ Logic_process(inputVolume, outputVolume, imageThreshold, invert)) =>
         /\ log' = <<Event("raise", NoFile,
                           "ValueError('Input or output volume is invalid')", None)>>
         /\ scene' = scene]_vars

C15_Witness ==
  /\ lastOp = "process"
  /\ log # <<>> /\ log[1].ev = "raise"
  /\ \E n \in scene : n.name = n_sample
  /\ \A n \in scene : n.name # n_output

\* numpy's array.min()
ArrayMin(voxels) == Min({voxels[i] : i \in 1..Len(voxels)})

\* the output volume of a call, after the call
OutputAfter(outputVolume) == (CHOOSE n \in scene' : n.name = outputVolume.name).voxels

\* the CLI module was run exactly once, with this ThresholdType
RanWith(ThresholdType) ==
  /\ Cardinality({i \in 1..Len(log') : log'[i].ev = "cli.run"}) = 1
  /\ \A i \in 1..Len(log') : log'[i].ev = "cli.run" => log'[i].msg = ThresholdType

\* each voxel of out is 0 where the voxel of in is above (invert) or below
\* (not invert) the threshold, and the voxel of in elsewhere
Thresholded(in, out, imageThreshold, invert) ==
  /\ Len(out) = Len(in)
  /\ \A i \in 1..Len(in) :
       out[i] = IF (invert /\ in[i] > imageThreshold)
                   \/ (~invert /\ in[i] < imageThreshold)
                THEN 0 ELSE in[i]

CallsSelectParameterNode == {"setup", "enter", "onSceneStartClose", "onSceneEndClose"}

IsNiiGz(n) ==
  /\ Len(n) >= Len(ext_nii_gz)
  /\ SubSeq(n, Len(n) - Len(ext_nii_gz) + 1, Len(n)) = ext_nii_gz
  /\ n[1] # "."

\* the name up to its first '.nii.gz'
UpToNiiGz(n) ==
  LET at == {k \in 0..(Len(n) - Len(ext_nii_gz)) :
               SubSeq(n, k + 1, k + Len(ext_nii_gz)) = ext_nii_gz}
  IN SubSeq(n, 1, Min(at))

\* C18: after Load in ImplantVideo the file set lists the *.nii.gz files of
\* the image folder, each once, in lexicographic order; total_files is its
\* length and current_file is 0; and the file list has grown by one entry
\* per file, in the order of the file set, whose text is the base name up to
\* its first '.nii.gz'.
C18_VideoFileset ==
  [][(module = "ImplantVideo" /\ lastOp' = "onRun") =>
       /\ {fileset'[i] : i \in 1..Len(fileset')} =
            {Join(imageDirectory, n) : n \in {m \in folders[imageDirectory] : IsNiiGz(m)}}
       /\ \A i \in 1..(Len(fileset') - 1) :
            StrLess(fileset'[i].name, fileset'[i + 1].name)
       /\ total_files' = Len(fileset')
       /\ current_file' = 0
       /\ FileComboBox'.items =
            FileComboBox.items
              \o [i \in 1..Len(fileset') |-> UpToNiiGz(fileset'[i].name)]]_vars

C18_Witness ==
  /\ module = "ImplantVideo" /\ lastOp = "onRun"
  /\ total_files = 2
  /\ Len(FileComboBox.items) = 3
  /\ fileset[1].name = n_a_niigz /\ fileset[2].name = n_twice_niigz
  /\ FileComboBox.items[2] = FileComboBox.items[3]

(***************************************************************************)
(* LoadFiles, ImplantVideo.                                                *)
(***************************************************************************)
\* the volume nodes ImplantVideo loaded during the last handler, each with
\* the file it was read from
VideoLoaded ==
  {<<log[i].path, log[i].node>> : i \in IF module = "ImplantVideo"
                                        THEN Events("loadVolume") ELSE {}}

\* C19: after ImplantVideo has loaded a file, every voxel of the loaded
\* volume whose value in the file was below 2000 is 0 and every voxel whose
\* value was 2000 or more keeps it; extracting again changes nothing.
C19_ImplantExtraction ==
  \A l \in VideoLoaded :
    LET original == VolumeData(l[1])
        voxels == l[2].voxels
    IN /\ Len(voxels) = Len(original)
       /\ \A k \in 1..Len(original) :
            /\ original[k] < 2000 => voxels[k] = 0
            /\ original[k] >= 2000 => voxels[k] = original[k]
       /\ ExtractImplant(voxels) = voxels
       /\ l[2] = currentVolumeNode

C19_Witness ==
  \E l \in VideoLoaded :
    /\ VolumeData(l[1]) = <<0, 1999, 2000>>
    /\ l[2].voxels = <<0, 0, 2000>>
    /\ currentVolumeNode = l[2]
    /\ currentVolumeNode \in scene

(***************************************************************************)
(* The loaded data and the current index, both modules.                    *)
(***************************************************************************)
\* the nodes of the scene that were read from a file
VolumesLoaded == {n \in scene : n.class = "vtkMRMLScalarVolumeNode"}

SegmentationsLoaded ==
  {n \in scene : n.class = "vtkMRMLSegmentationNode" /\ n.file # NoFile}

\* C20: in every quiescent state with total_files > 0 and a volume loaded,
\* the loaded volume (and, in EasySegmentation, the segmentation read from a
\* file) is the one read from fileset[current_file].
C20_LoadedIsCurrent ==
  (pc = "idle" /\ total_files > 0 /\ VolumesLoaded # {}) =>
    /\ PyValid(fileset, current_file)
    /\ \A n \in VolumesLoaded :
         n.file = ImageOf(module, PyAt(fileset, current_file))
    /\ module = "EasySegmentation" =>
         \A n \in SegmentationsLoaded : n.file = PyAt(fileset, current_file)[2]

(***************************************************************************)
(* EasySegmentation: the threshold applied by LoadFiles.                   *)
(***************************************************************************)
\* the segments a new segmentation holds after the threshold between the
\* texts min and max was applied to the voxels
Segment_1(voxels, min, max) ==
  << <<"Segment_1",
       [i \in 1..Len(voxels) |->
          IF Float(min) <= 10 * voxels[i] /\ 10 * voxels[i] <= Float(max)
          THEN 1 ELSE 0]>> >>

\* C21: when LoadFiles of EasySegmentation loads a file set without a
\* segmentation file, the max box holds the maximum voxel value of the loaded
\* volume, the min box keeps its text, and the new segmentation holds the
\* segment 'Segment_1' with the voxels in [min, max] when the Threshold check
\* box is checked, and no segment when it is not.
C21_ThresholdOnLoad ==
  [][(/\ module = "EasySegmentation"
      /\ \E i \in 1..Len(log') : log'[i].ev = "loadVolume"
      /\ \A i \in 1..Len(log') : log'[i].ev # "loadSegmentation") =>
       LET voxels == currentVolumeNode'.voxels
       IN /\ maxBox'.text = IntToText(ArrayMax(voxels))
          /\ minBox'.text = minBox.text
          /\ currentSegNode' \in scene'
          /\ IF ThresholdCheck'.checked
             THEN /\ IsNumeric(minBox.text)
                  /\ currentSegNode'.segments =
                       Segment_1(voxels, minBox.text, maxBox'.text)
             ELSE currentSegNode'.segments = <<>>]_vars

(***************************************************************************)
(* EasySegmentation: a change of preset.                                   *)
(***************************************************************************)
\* the chain of nested calls of the last handler came to its end
Settled == \A i \in 1..Len(log) : log[i].msg # "RecursionError"

\* the state after the preset node was chosen and the calls have returned
PresetIs(node) ==
  /\ Settled
  /\ currentPresetNode = node
  /\ PresetComboBox.current = node
  /\ ~changeProperty
  /\ OldPresetPosition = 0
  /\ PresetOffsetSlider.value = 0

\* first half of C22: the step of choosing a preset
PresetChangeSettles ==
  [][\A node \in 1..(NumPresets + 1) :
       (/\ PresetComboBox_select(node)
        /\ ~needAddProperty
        /\ node # currentPresetNode) => PresetIs(node)']_vars

\* C22: after a case is loaded (needAddProperty false), when the user chooses
\* a preset other than currentPresetNode the nested calls of onPresetCombo
\* come to an end, and then currentPresetNode is the chosen preset,
\* changeProperty is false, OldPresetPosition is 0 and the offset slider is
\* at 0; and changeProperty is false in every quiescent state.
C22_PresetSettles ==
  /\ PresetChangeSettles
  /\ [](pc = "idle" => ~changeProperty)

(***************************************************************************)
(* EasySegmentation: the visibility of the volume rendering.               *)
(***************************************************************************)
\* the last handler loaded a volume and LoadFiles ran to its end
LoadedAll ==
  /\ module = "EasySegmentation"
  /\ Events("loadVolume") # {}
  /\ \A i \in 1..Len(log) : log[i].ev # "raise"

\* a case is loaded: its volume is in the scene with its display node
CaseLoaded ==
  /\ module = "EasySegmentation"
  /\ currentVolumeNode \in scene
  /\ displayNode # NoDisplay
  /\ displayNode.volume = currentVolumeNode.file

\* C23: after every LoadFiles that ran to its end the display node is the
\* one of the new volume and its visibility and the checked state of the
\* Display Volume Rendering button both equal the checked state of the
\* Automatic Volume Rendering check box; after every click of the button the
\* visibility of the display node equals the checked state of the button;
\* and in every quiescent state with a loaded case the visibility equals the
\* checked state of the button.
C23_RenderingVisibility ==
  /\ [][LoadedAll' =>
          /\ CaseLoaded'
          /\ displayNode'.visibility = RenderCheck'
          /\ RenderButton'.checked = RenderCheck']_vars
  /\ [][lastOp' = "onRendering" =>
          /\ displayNode' # NoDisplay
          /\ RenderButton'.checked = ~RenderButton.checked
          /\ displayNode'.visibility = RenderButton'.checked]_vars
  /\ []((pc = "idle" /\ CaseLoaded) =>
          displayNode.visibility = RenderButton.checked)

C23_Witness ==
  /\ lastOp = "onRendering" /\ CaseLoaded
  /\ current_file = 1
  /\ ~RenderCheck /\ RenderButton.checked /\ displayNode.visibility

(***************************************************************************)
(* EasySegmentation: one segmentation file, one image.                     *)
(***************************************************************************)
\* C24: in the file set built by Load of EasySegmentation, whatever the
\* folders hold, no segmentation file is paired with two image files.
C24_PairedOnce ==
  (module = "EasySegmentation" /\ lastOp = "onRun") =>
    \A i, j \in 1..Len(fileset) :
      (i # j /\ fileset[i][2] # NoFile) => fileset[i][2] # fileset[j][2]

====
